---- MODULE Spec2Model ----
(***************************************************************************)
(* The sampling / buffering / delivery pipeline of the REFORMMED monitor   *)
(* agent (src/agent.py): the main loop collects one snapshot per tick and  *)
(* offers it to send_queue; sender_thread drains send_queue, posts each    *)
(* snapshot once and tracks the consecutive-failure count failed_count.    *)
(*                                                                         *)
(* A snapshot is represented by its production number 1, 2, 3, ... (the    *)
(* k-th successful collect_metrics() call yields snapshot k).  None, the   *)
(* value sender_thread treats as its stop signal, is 0.                    *)
(***************************************************************************)
EXTENDS Integers, Sequences, FiniteSets

\* ---- bounds of the model -------------------------------------------------
\* Capacity handed to queue.Queue(maxsize=...): 300 in the source, kept small
\* here so that the full queue is reached.
Capacity == 3
\* Number of snapshots collect_metrics() may produce in a run.
MaxSnapshots == 7
\* Number of iterations in which collect_metrics() may raise.
MaxCollectErrors == 1
\* SpecOutage, a run with long outages: the number of snapshots
\* collect_metrics() may produce, and the number of requests the endpoint may
\* answer with status 200.
MaxOutageSnapshots == 12
MaxOutageOk == 1
\* SpecStartup, a run from the start of main: the number of snapshots
\* collect_metrics() may produce.
MaxStartupSnapshots == 2
\* The clock counts ticks.  SEND_INTERVAL is the configured interval
\* (REFORMMED_INTERVAL) in ticks; a collect_metrics() call takes up to
\* MaxCollectTime ticks and a send_metrics call up to MaxSendTime ticks.
SEND_INTERVAL == 2
MaxCollectTime == 3
MaxSendTime == 8
\* SpecTimed, runs with the clock: the number of snapshots collect_metrics()
\* may produce.
MaxTimedSnapshots == 5
\* SpecIp: the number of get_public_ip() calls, and the seconds the clock
\* may run.
MaxIpCalls == 4
MaxIpTime == 62

\* ---- program constants ---------------------------------------------------
\* failed_count % 10 == 1
WarnEvery == 10
None == 0
\* for attempt in range(60)
RegisterAttempts == 60
\* time.sleep(5) after an attempt of register() that did not return
RegisterDelay == 5
\* if now - _ip_cache["ts"] < 60
CacheTtl == 60

\* What SESSION.post(...) can do within send_metrics: answer with a status
\* code, or raise (timeout after 5 s, connection error, ...).
Responses == {"200", "500", "timeout"}
Raises(resp) == resp = "timeout"

VARIABLES
    send_queue,      \* queue.Queue(maxsize=...): the buffered items, head first
    failed_count,    \* global failed_count
    main_pc,         \* position of the main loop
    data,            \* main's local: the snapshot of this iteration
    sent,            \* main's local counter
    sender_pc,       \* position of sender_thread
    payload,         \* sender_thread's local: the item it dequeued
    r,               \* send_metrics' view of the last response
    log,             \* messages sender_thread has logged, oldest first
    collect_errors,  \* number of "Collect error" messages main has logged
    collected,       \* history: number of snapshots collect_metrics() returned
    dropped,         \* history: snapshots main did not put (queue found full)
    attempts,        \* history: the send_metrics calls so far, oldest first
    reg_attempt,     \* register's loop variable attempt
    reg_r,           \* register's view of the last response
    reg_posts,       \* history: number of POSTs register() has made
    reg_slept,       \* history: seconds register() has slept
    exit_status,     \* the status the process exited with, -1 while it runs
    now,             \* time.time(), in ticks
    loop_start,      \* main's local loop_start
    sleep_arg,       \* the argument of main's last time.sleep call
    main_timer,      \* ticks until main's current call returns
    sender_timer,    \* ticks until sender_thread's current call returns
    work,            \* history: ticks since this iteration of main started
    slept,           \* history: ticks main has been in its current sleep
    late,            \* history: an iteration took longer than SEND_INTERVAL
    failed_tick,     \* history: collect_metrics() raised in this iteration
    ip_cache,        \* _ip_cache: the address and the time it was stored
    ip_returned,     \* what the last get_public_ip() call returned
    ip_calls,        \* history: number of get_public_ip() calls
    ip_lookups,      \* history: number of urlopen calls made by them
    ip_last_lookup   \* history: the clock at the last urlopen call

\* The state of the pipeline, and the state of the startup around it.
pipeline_vars ==
    <<send_queue, failed_count, main_pc, data, sent, sender_pc, payload, r,
      log, collect_errors, collected, dropped, attempts>>
startup_vars == <<reg_attempt, reg_r, reg_posts, reg_slept, exit_status>>
clock_vars ==
    <<now, loop_start, sleep_arg, main_timer, sender_timer, work, slept, late,
      failed_tick>>
ip_vars == <<ip_cache, ip_returned, ip_calls, ip_lookups, ip_last_lookup>>
other_vars == <<startup_vars, clock_vars, ip_vars>>

vars == <<pipeline_vars, other_vars>>

\* ---- queue.Queue --------------------------------------------------------
\* send_queue = queue.Queue(maxsize=300)
send_queue_one_too_many == Capacity + 1
send_queue_maxsize == Capacity

qsize(q) == Len(q)

\* Queue.full(): 0 < maxsize <= qsize
full_off_by_one(q) == 0 < send_queue_maxsize /\ send_queue_maxsize < qsize(q)
full(q) == 0 < send_queue_maxsize /\ send_queue_maxsize <= qsize(q)

\* Queue.put(item) with block=True waits while maxsize > 0 and
\* qsize >= maxsize.
put_waits(q) == send_queue_maxsize > 0 /\ qsize(q) >= send_queue_maxsize

\* ---- send_metrics --------------------------------------------------------
\* The outcome of a Python call: it returns value, or it raises.
Returns(v) == [raised |-> FALSE, value |-> v]
RaisesOut == [raised |-> TRUE, value |-> FALSE]

\* try: r = SESSION.post(...); return r.status_code == 200
\* except Exception: return False
send_metrics_any_answer(resp) ==
    IF Raises(resp) THEN Returns(FALSE) ELSE Returns(TRUE)
send_metrics_no_except(resp) ==
    IF Raises(resp) THEN RaisesOut ELSE Returns(resp = "200")
send_metrics(resp) ==
    IF Raises(resp) THEN Returns(FALSE) ELSE Returns(resp = "200")

\* if failed_count > 0: log.info("Connection restored")
restored_due_always(fc) == TRUE
restored_due(fc) == fc > 0

\* if failed_count % 10 == 1: log.warning("Server unreachable ...")
warning_due_every_tenth(fc) == fc % WarnEvery = 0
warning_due(fc) == fc % WarnEvery = 1

\* The pipeline as main's loop is entered: register() has returned True on
\* its first attempt and sender_thread has been started.
\* _ip_cache = {"ip": None, "ts": 0}, and no call made.
IpCacheEmpty ==
    /\ ip_cache = [ip |-> "None", ts |-> 0]
    /\ ip_returned = "None"
    /\ ip_calls = 0
    /\ ip_lookups = 0
    /\ ip_last_lookup = 0

ClockAtZero ==
    /\ now = 0
    /\ loop_start = 0
    /\ sleep_arg = 0
    /\ main_timer = 0
    /\ sender_timer = 0
    /\ work = 0
    /\ slept = 0
    /\ late = FALSE
    /\ failed_tick = FALSE

Init ==
    /\ ClockAtZero
    /\ IpCacheEmpty
    /\ reg_attempt = 0
    /\ reg_r = "200"
    /\ reg_posts = 1
    /\ reg_slept = 0
    /\ exit_status = -1
    /\ send_queue = <<>>
    /\ failed_count = 0
    /\ main_pc = "collect"
    /\ data = None
    /\ sent = 0
    /\ sender_pc = "get"
    /\ payload = None
    /\ r = "none"
    /\ log = <<>>
    /\ collect_errors = 0
    /\ collected = 0
    /\ dropped = {}
    /\ attempts = <<>>

\* ---- main loop -----------------------------------------------------------
\* loop_start = time.time(); data = collect_metrics() returns a snapshot.
Collect(limit) ==
    /\ main_pc = "collect"
    /\ collected < limit
    /\ collected' = collected + 1
    /\ data' = collected + 1
    /\ main_pc' = "full"
    /\ UNCHANGED <<send_queue, failed_count, sent, sender_pc, payload, r, log,
                   collect_errors, dropped, attempts>>

MainCollect == Collect(MaxSnapshots)

\* Variant: after the "Collect error" the iteration goes on to the queue
\* with whatever data holds.
MainCollectError_falls_through ==
    /\ main_pc = "collect"
    /\ collect_errors < MaxCollectErrors
    /\ collect_errors' = collect_errors + 1
    /\ main_pc' = "full"
    /\ UNCHANGED <<send_queue, failed_count, data, sent, sender_pc, payload, r,
                   log, collected, dropped, attempts>>

\* collect_metrics() raises: except Exception -> log.error("Collect error"),
\* then the sleep at the end of the iteration.
MainCollectError ==
    /\ main_pc = "collect"
    /\ collect_errors < MaxCollectErrors
    /\ collect_errors' = collect_errors + 1
    /\ main_pc' = "sleep"
    /\ UNCHANGED <<send_queue, failed_count, data, sent, sender_pc, payload, r,
                   log, collected, dropped, attempts>>

\* Variant: a full queue gives up its oldest item for the new snapshot.
MainCheckFull_drop_oldest ==
    /\ main_pc = "full"
    /\ IF full(send_queue)
         THEN /\ dropped' = dropped \cup {Head(send_queue)}
              /\ send_queue' = Append(Tail(send_queue), data)
              /\ sent' = sent + 1
              /\ main_pc' = "sleep"
         ELSE /\ dropped' = dropped
              /\ send_queue' = send_queue
              /\ sent' = sent
              /\ main_pc' = "put"
    /\ UNCHANGED <<failed_count, data, sender_pc, payload, r, log,
                   collect_errors, collected, attempts>>

\* Variant: sent counts only the snapshots that were put.
MainCheckFull_counts_puts_only ==
    /\ main_pc = "full"
    /\ IF full(send_queue)
         THEN /\ dropped' = dropped \cup {data}
              /\ sent' = sent
              /\ main_pc' = "sleep"
         ELSE /\ dropped' = dropped
              /\ sent' = sent
              /\ main_pc' = "put"
    /\ UNCHANGED <<send_queue, failed_count, data, sender_pc, payload, r, log,
                   collect_errors, collected, attempts>>

\* if not send_queue.full(): ... ; when full, the snapshot is not put and the
\* iteration goes on to sent += 1 (and the progress line every
\* 30th time, which changes nothing) and to the sleep.
MainCheckFull ==
    /\ main_pc = "full"
    /\ IF full(send_queue)
         THEN /\ dropped' = dropped \cup {data}
              /\ sent' = sent + 1
              /\ main_pc' = "sleep"
         ELSE /\ dropped' = dropped
              /\ sent' = sent
              /\ main_pc' = "put"
    /\ UNCHANGED <<send_queue, failed_count, data, sender_pc, payload, r, log,
                   collect_errors, collected, attempts>>

\* Variant: the snapshot is put at the head of the queue.
MainPut_at_head ==
    /\ main_pc = "put"
    /\ ~put_waits(send_queue)
    /\ send_queue' = <<data>> \o send_queue
    /\ sent' = sent + 1
    /\ main_pc' = "sleep"
    /\ UNCHANGED <<failed_count, data, sender_pc, payload, r, log,
                   collect_errors, collected, dropped, attempts>>

\* send_queue.put(data): waits while the queue has no free slot; then
\* sent += 1 (and the progress line) and the sleep.
MainPut ==
    /\ main_pc = "put"
    /\ ~put_waits(send_queue)
    /\ send_queue' = Append(send_queue, data)
    /\ sent' = sent + 1
    /\ main_pc' = "sleep"
    /\ UNCHANGED <<failed_count, data, sender_pc, payload, r, log,
                   collect_errors, collected, dropped, attempts>>

\* time.sleep(max(0, SEND_INTERVAL - elapsed)), then the next iteration.
MainSleep ==
    /\ main_pc = "sleep"
    /\ main_pc' = "collect"
    /\ UNCHANGED <<send_queue, failed_count, data, sent, sender_pc, payload, r,
                   log, collect_errors, collected, dropped, attempts>>

\* ---- sender_thread -------------------------------------------------------
\* Variant: get() reads the head and leaves it in the queue.
SenderGet_peek ==
    /\ sender_pc = "get"
    /\ qsize(send_queue) > 0
    /\ payload' = Head(send_queue)
    /\ send_queue' = send_queue
    /\ sender_pc' = IF Head(send_queue) = None THEN "done" ELSE "send"
    /\ UNCHANGED <<failed_count, main_pc, data, sent, r, log, collect_errors,
                   collected, dropped, attempts>>

\* Variant: get() takes the newest item (a LIFO queue).
SenderGet_lifo ==
    /\ sender_pc = "get"
    /\ qsize(send_queue) > 0
    /\ payload' = send_queue[Len(send_queue)]
    /\ send_queue' = SubSeq(send_queue, 1, Len(send_queue) - 1)
    /\ sender_pc' = IF payload' = None THEN "done" ELSE "send"
    /\ UNCHANGED <<failed_count, main_pc, data, sent, r, log, collect_errors,
                   collected, dropped, attempts>>

\* payload = send_queue.get(): waits for an item; None ends the loop.
SenderGet ==
    /\ sender_pc = "get"
    /\ qsize(send_queue) > 0
    /\ payload' = Head(send_queue)
    /\ send_queue' = Tail(send_queue)
    /\ sender_pc' = IF Head(send_queue) = None THEN "done" ELSE "send"
    /\ UNCHANGED <<failed_count, main_pc, data, sent, r, log, collect_errors,
                   collected, dropped, attempts>>

\* The messages sender_thread logs, each with the number of the
\* send_metrics call it was logged after.
Restored(n) == [msg |-> "restored", attempt |-> n]
Unreachable(n) == [msg |-> "unreachable", attempt |-> n]

\* ok = send_metrics(payload) and the branches on ok, when the endpoint's
\* response is resp.  sender_thread catches nothing: were send_metrics to
\* raise, the thread would end.
Deliver(resp) ==
    LET out == send_metrics(resp)
        n == Len(attempts) + 1
    IN  /\ sender_pc = "send"
        /\ r' = resp
        /\ attempts' = Append(attempts,
                              [id |-> payload, delivered |-> resp = "200"])
        /\ IF out.raised
             THEN /\ sender_pc' = "done"
                  /\ UNCHANGED <<failed_count, log>>
             ELSE /\ sender_pc' = "get"
                  /\ IF out.value
                       THEN /\ log' = IF restored_due(failed_count)
                                        THEN Append(log, Restored(n))
                                        ELSE log
                            /\ failed_count' = 0
                       ELSE /\ failed_count' = failed_count + 1
                            /\ log' = IF warning_due(failed_count + 1)
                                        THEN Append(log, Unreachable(n))
                                        ELSE log
        /\ UNCHANGED <<send_queue, main_pc, data, sent, payload,
                       collect_errors, collected, dropped>>

SenderSend == \E resp \in Responses : Deliver(resp)

\* A step of the pipeline, which leaves everything else as it is.
Steady(A) == A /\ UNCHANGED other_vars

Next ==
    \/ Steady(MainCollect)
    \/ Steady(MainCollectError)
    \/ Steady(MainCheckFull)
    \/ Steady(MainPut)
    \/ Steady(MainSleep)
    \/ Steady(SenderGet)
    \/ Steady(SenderSend)

Spec == Init /\ [][Next]_vars

\* Long outages: the same program with an endpoint that answers 200 at most
\* MaxOutageOk times and a collector that never fails.
MainCollectOutage == Collect(MaxOutageSnapshots)
SenderSendOutage ==
    \E resp \in Responses :
        /\ resp = "200" =>
             Cardinality({i \in 1..Len(attempts) : attempts[i].delivered})
                < MaxOutageOk
        /\ Deliver(resp)

NextOutage ==
    \/ Steady(MainCollectOutage)
    \/ Steady(MainCheckFull)
    \/ Steady(MainPut)
    \/ Steady(MainSleep)
    \/ Steady(SenderGet)
    \/ Steady(SenderSendOutage)

SpecOutage == Init /\ [][NextOutage]_vars

\* ---- register and the start of main ------------------------------------
\* What SESSION.post(.../register) can do: answer 200 with a JSON object as
\* body, answer 200 with a body r.json().get() fails on, answer another
\* status, or raise.
RegisterResponses == {"200", "200_no_json", "500", "timeout"}
Status200(resp) == resp \in {"200", "200_no_json"}

\* if r.status_code == 200: log.info(... r.json().get('table_name'));
\* return True -- inside the try, so that a failing r.json() is caught like
\* a failing post and the attempt ends in the sleep.
register_returns(resp) == resp = "200"

\* One attempt of register(): the POST and what follows from the response.
RegisterPost(resp) ==
    /\ main_pc = "register"
    /\ reg_attempt < RegisterAttempts
    /\ reg_r' = resp
    /\ reg_posts' = reg_posts + 1
    /\ main_pc' = IF register_returns(resp) THEN "registered"
                                             ELSE "register_sleep"
    /\ UNCHANGED <<reg_attempt, reg_slept, exit_status>>
    /\ UNCHANGED <<clock_vars, ip_vars>>
    /\ UNCHANGED <<send_queue, failed_count, data, sent, sender_pc, payload, r,
                   log, collect_errors, collected, dropped, attempts>>

MainRegister == \E resp \in RegisterResponses : RegisterPost(resp)

\* time.sleep(5) and the next value of attempt; after the last one,
\* return False.
MainRegisterSleep ==
    /\ main_pc = "register_sleep"
    /\ reg_slept' = reg_slept + RegisterDelay
    /\ reg_attempt' = reg_attempt + 1
    /\ main_pc' = IF reg_attempt + 1 < RegisterAttempts THEN "register"
                                                        ELSE "register_failed"
    /\ UNCHANGED <<reg_r, reg_posts, exit_status>>
    /\ UNCHANGED <<clock_vars, ip_vars>>
    /\ UNCHANGED <<send_queue, failed_count, data, sent, sender_pc, payload, r,
                   log, collect_errors, collected, dropped, attempts>>

\* Variant: main goes on after register() returned False.
MainRegisterFailed_goes_on ==
    /\ main_pc = "register_failed"
    /\ main_pc' = "registered"
    /\ UNCHANGED <<startup_vars, clock_vars, ip_vars>>
    /\ UNCHANGED <<send_queue, failed_count, data, sent, sender_pc, payload, r,
                   log, collect_errors, collected, dropped, attempts>>

\* if not register(): log.error("Registration failed"); sys.exit(1)
MainRegisterFailed ==
    /\ main_pc = "register_failed"
    /\ exit_status' = 1
    /\ main_pc' = "exited"
    /\ UNCHANGED <<reg_attempt, reg_r, reg_posts, reg_slept>>
    /\ UNCHANGED <<clock_vars, ip_vars>>
    /\ UNCHANGED <<send_queue, failed_count, data, sent, sender_pc, payload, r,
                   log, collect_errors, collected, dropped, attempts>>

\* t = threading.Thread(target=sender_thread, daemon=True); t.start();
\* sent = 0 and into the loop.
MainStartThread ==
    /\ main_pc = "registered"
    /\ sender_pc' = "get"
    /\ sent' = 0
    /\ main_pc' = "collect"
    /\ UNCHANGED <<startup_vars, clock_vars, ip_vars>>
    /\ UNCHANGED <<send_queue, failed_count, data, payload, r, log,
                   collect_errors, collected, dropped, attempts>>

MainCollectStartup == Collect(MaxStartupSnapshots)

InitStartup ==
    /\ ClockAtZero
    /\ IpCacheEmpty
    /\ reg_attempt = 0
    /\ reg_r = "none"
    /\ reg_posts = 0
    /\ reg_slept = 0
    /\ exit_status = -1
    /\ send_queue = <<>>
    /\ failed_count = 0
    /\ main_pc = "register"
    /\ data = None
    /\ sent = 0
    /\ sender_pc = "unstarted"
    /\ payload = None
    /\ r = "none"
    /\ log = <<>>
    /\ collect_errors = 0
    /\ collected = 0
    /\ dropped = {}
    /\ attempts = <<>>

NextStartup ==
    \/ MainRegister
    \/ MainRegisterSleep
    \/ MainRegisterFailed
    \/ MainStartThread
    \/ Steady(MainCollectStartup)
    \/ Steady(MainCollectError)
    \/ Steady(MainCheckFull)
    \/ Steady(MainPut)
    \/ Steady(MainSleep)
    \/ Steady(SenderGet)
    \/ Steady(SenderSend)

SpecStartup == InitStartup /\ [][NextStartup]_vars

\* ---- the pipeline with the clock ----------------------------------------
Max(a, b) == IF a > b THEN a ELSE b
CollectTimes == 0..MaxCollectTime
\* The endpoint answers within the tick, after one tick, or only after
\* MaxSendTime ticks.
SendTimes == {0, 1, MaxSendTime}

\* max(0, SEND_INTERVAL - elapsed)
sleep_time_whole_interval(elapsed) == SEND_INTERVAL
sleep_time(elapsed) == Max(0, SEND_INTERVAL - elapsed)

\* elapsed = time.time() - loop_start; time.sleep(max(0, SEND_INTERVAL -
\* elapsed)): the end of an iteration of main.
EnterSleep ==
    /\ sleep_arg' = sleep_time(now - loop_start)
    /\ main_timer' = sleep_time(now - loop_start)
    /\ slept' = 0
    /\ UNCHANGED <<now, loop_start, sender_timer, work, late>>

\* Variant: the sleep after a failed collection is computed from the moment
\* of the failure.
TimedCollectError_restarts_clock ==
    /\ main_timer = 0
    /\ MainCollectError
    /\ sleep_arg' = sleep_time(0)
    /\ main_timer' = sleep_time(0)
    /\ slept' = 0
    /\ failed_tick' = TRUE
    /\ UNCHANGED <<now, loop_start, sender_timer, work, late>>
    /\ UNCHANGED <<startup_vars, ip_vars>>

\* collect_metrics() returns, the time it takes having passed.
TimedCollect(limit) ==
    /\ main_timer = 0
    /\ Collect(limit)
    /\ UNCHANGED <<startup_vars, clock_vars, ip_vars>>

\* collect_metrics() raises, the time it takes having passed.
TimedCollectError ==
    /\ main_timer = 0
    /\ MainCollectError
    /\ EnterSleep
    /\ failed_tick' = TRUE
    /\ UNCHANGED <<startup_vars, ip_vars>>

TimedCheckFull ==
    /\ main_timer = 0
    /\ MainCheckFull
    /\ IF full(send_queue)
         THEN EnterSleep
         ELSE UNCHANGED <<now, loop_start, sleep_arg, main_timer,
                          sender_timer, work, slept, late>>
    /\ UNCHANGED <<failed_tick, startup_vars, ip_vars>>

TimedPut ==
    /\ main_timer = 0
    /\ MainPut
    /\ EnterSleep
    /\ UNCHANGED <<failed_tick, startup_vars, ip_vars>>

\* time.sleep returns; loop_start = time.time(); collect_metrics() is
\* called and will take one of the given numbers of ticks.
Wake(times) ==
    /\ main_timer = 0
    /\ MainSleep
    /\ loop_start' = now
    /\ \E d \in times : main_timer' = d
    /\ work' = 0
    /\ late' = (late \/ work > SEND_INTERVAL)
    /\ failed_tick' = FALSE
    /\ UNCHANGED <<now, sleep_arg, sender_timer, slept, startup_vars, ip_vars>>

TimedSleep == Wake(CollectTimes)

\* send_queue.get() returns and send_metrics is called; the call will take
\* one of the given numbers of ticks.
TimedGet(times) ==
    /\ SenderGet
    /\ \E d \in times : sender_timer' = d
    /\ UNCHANGED <<now, loop_start, sleep_arg, main_timer, work, slept, late,
                   failed_tick>>
    /\ UNCHANGED <<startup_vars, ip_vars>>

\* send_metrics returns, the time it takes having passed.
TimedSend(resps) ==
    /\ sender_timer = 0
    /\ \E resp \in resps : Deliver(resp)
    /\ UNCHANGED <<startup_vars, clock_vars, ip_vars>>

\* A tick of the clock: while main is in a call that takes time, and
\* sender_thread is in one or waits at an empty queue.
Tick ==
    /\ main_timer > 0
    /\ sender_pc = "send" => sender_timer > 0
    /\ sender_pc = "get" => send_queue = <<>>
    /\ now' = now + 1
    /\ main_timer' = main_timer - 1
    /\ sender_timer' = Max(0, sender_timer - 1)
    /\ work' = IF main_pc = "sleep" THEN work ELSE work + 1
    /\ slept' = IF main_pc = "sleep" THEN slept + 1 ELSE slept
    /\ UNCHANGED <<loop_start, sleep_arg, late, failed_tick>>
    /\ UNCHANGED <<pipeline_vars, startup_vars, ip_vars>>

\* The first collect_metrics() call takes time as well.
InitTimed ==
    /\ now = 0
    /\ loop_start = 0
    /\ sleep_arg = 0
    /\ main_timer \in CollectTimes
    /\ sender_timer = 0
    /\ work = 0
    /\ slept = 0
    /\ late = FALSE
    /\ failed_tick = FALSE
    /\ IpCacheEmpty
    /\ reg_attempt = 0
    /\ reg_r = "200"
    /\ reg_posts = 1
    /\ reg_slept = 0
    /\ exit_status = -1
    /\ send_queue = <<>>
    /\ failed_count = 0
    /\ main_pc = "collect"
    /\ data = None
    /\ sent = 0
    /\ sender_pc = "get"
    /\ payload = None
    /\ r = "none"
    /\ log = <<>>
    /\ collect_errors = 0
    /\ collected = 0
    /\ dropped = {}
    /\ attempts = <<>>

MainCollectTimed == TimedCollect(MaxTimedSnapshots)
SenderGetTimed == TimedGet(SendTimes)
SenderSendTimed == TimedSend({"200", "timeout"})

NextTimed ==
    \/ MainCollectTimed
    \/ TimedCollectError
    \/ TimedCheckFull
    \/ TimedPut
    \/ TimedSleep
    \/ SenderGetTimed
    \/ SenderSendTimed
    \/ Tick

SpecTimed == InitTimed /\ [][NextTimed]_vars

\* A sustained outage with the clock: every send_metrics call takes one tick
\* longer than SEND_INTERVAL and all of them fail but at most one, which is not among
\* the first Capacity; collect_metrics() never fails, and once it has taken
\* longer than SEND_INTERVAL it goes on taking MaxCollectTime.  The run is
\* long enough for the queue to fill at the slowest rate, one more snapshot
\* waiting per SEND_INTERVAL + 1 snapshots produced.
MaxSustainedSnapshots == (Capacity + 1) * (SEND_INTERVAL + 1) + 2
SustainedSendTimes == {SEND_INTERVAL + 1}
SustainedResponses ==
    IF Len(attempts) >= Capacity /\ \A i \in DOMAIN attempts : ~attempts[i].delivered
      THEN {"200", "timeout"}
      ELSE {"timeout"}

SustainedCollectTimes ==
    IF late \/ work > SEND_INTERVAL THEN {MaxCollectTime} ELSE CollectTimes

MainCollectSustained == TimedCollect(MaxSustainedSnapshots)
SustainedSleep == Wake(SustainedCollectTimes)
SenderGetSustained == TimedGet(SustainedSendTimes)
SenderSendSustained == TimedSend(SustainedResponses)

NextSustained ==
    \/ MainCollectSustained
    \/ TimedCheckFull
    \/ TimedPut
    \/ SustainedSleep
    \/ SenderGetSustained
    \/ SenderSendSustained
    \/ Tick

\* Both loops keep running: a step that is possible is eventually taken.
SpecSustained ==
    /\ InitTimed
    /\ [][NextSustained]_vars
    /\ WF_vars(NextSustained)

\* ---- get_public_ip ---------------------------------------------------------
\* What urlopen("https://api.ipify.org", timeout=5) can do: answer with an
\* address, or raise.
IpAnswers == {"203.0.113.1", "203.0.113.2", "raise"}

\* Seconds that pass between two calls.
IpGaps == {1, CacheTtl - 1, CacheTtl}

\* time.time() when the process starts: seconds since 1970, more than
\* CacheTtl.
StartTime == CacheTtl + 1

\* get_public_ip(), urlopen answering with answer if it is called.
get_public_ip(answer) ==
    /\ ip_calls < MaxIpCalls
    /\ ip_calls' = ip_calls + 1
    /\ IF now - ip_cache.ts < CacheTtl
         THEN /\ ip_returned' = ip_cache.ip
              /\ UNCHANGED <<ip_cache, ip_lookups, ip_last_lookup>>
         ELSE /\ ip_lookups' = ip_lookups + 1
              /\ ip_last_lookup' = now
              /\ IF answer # "raise"
                   THEN /\ ip_cache' = [ip |-> answer, ts |-> now]
                        /\ ip_returned' = answer
                   ELSE /\ ip_returned' = ip_cache.ip
                        /\ UNCHANGED ip_cache

IpCall ==
    /\ \E answer \in IpAnswers : get_public_ip(answer)
    /\ UNCHANGED <<pipeline_vars, startup_vars, clock_vars>>

\* Time passes between two calls.
IpElapse ==
    /\ \E d \in IpGaps :
          /\ now + d <= StartTime + MaxIpTime
          /\ now' = now + d
    /\ UNCHANGED <<loop_start, sleep_arg, main_timer, sender_timer, work,
                   slept, late, failed_tick>>
    /\ UNCHANGED <<pipeline_vars, startup_vars, ip_vars>>

\* The module is loaded and nothing has run yet.
InitIp ==
    /\ IpCacheEmpty
    /\ now = StartTime
    /\ loop_start = 0
    /\ sleep_arg = 0
    /\ main_timer = 0
    /\ sender_timer = 0
    /\ work = 0
    /\ slept = 0
    /\ late = FALSE
    /\ failed_tick = FALSE
    /\ reg_attempt = 0
    /\ reg_r = "none"
    /\ reg_posts = 0
    /\ reg_slept = 0
    /\ exit_status = -1
    /\ send_queue = <<>>
    /\ failed_count = 0
    /\ main_pc = "register"
    /\ data = None
    /\ sent = 0
    /\ sender_pc = "unstarted"
    /\ payload = None
    /\ r = "none"
    /\ log = <<>>
    /\ collect_errors = 0
    /\ collected = 0
    /\ dropped = {}
    /\ attempts = <<>>

NextIp == IpCall \/ IpElapse

SpecIp == InitIp /\ [][NextIp]_vars

\* ---- helpers of the properties -----------------------------------------
Range(s) == {s[i] : i \in 1..Len(s)}
Min(a, b) == IF a < b THEN a ELSE b
Last(s) == s[Len(s)]

\* The snapshots whose send_metrics call has returned, and the one whose
\* call is under way.
Attempted == {attempts[i].id : i \in 1..Len(attempts)}
InFlight == IF sender_pc = "send" THEN {payload} ELSE {}

\* Number of snapshots main has finished offering to the queue.
Offered == IF main_pc \in {"full", "put"} THEN collected - 1 ELSE collected

\* sender_thread has taken nothing from the queue yet.
NeverDequeued == attempts = <<>> /\ sender_pc = "get"

\* ---- C1 ------------------------------------------------------------------
\* C1: in every reachable state, whatever the interleaving of main and
\* sender_thread, send_queue holds between 0 and Capacity items.
C1_QueueWithinCapacity ==
    /\ Len(send_queue) >= 0
    /\ Len(send_queue) <= Capacity

\* The queue is full while main is about to test full() and sender_thread is
\* in the middle of a delivery.
C1_Witness ==
    /\ Len(send_queue) = Capacity
    /\ main_pc = "full"
    /\ sender_pc = "send"

\* ---- C2 ------------------------------------------------------------------
\* C2: as long as sender_thread has dequeued nothing, after N snapshots were
\* offered the queue holds exactly the first min(N, Capacity) of them in
\* production order, and every later one (Capacity+1 .. N) was rejected.
C2_FirstItemsKept ==
    NeverDequeued =>
        /\ send_queue = [i \in 1..Min(Offered, Capacity) |-> i]
        /\ dropped = (Capacity + 1)..Offered

\* Two snapshots beyond the capacity were offered with no dequeue at all.
C2_Witness ==
    /\ NeverDequeued
    /\ Offered = Capacity + 2
    /\ Len(send_queue) = Capacity
    /\ Cardinality(dropped) = 2

\* ---- C3 ------------------------------------------------------------------
\* C3: a step of main that finds the queue at capacity leaves the queue as it
\* was and discards the snapshot; a step that puts appends the snapshot at
\* the tail; a discarded snapshot is never in the queue or in a delivery
\* afterwards.
C3_DropNewestFrame ==
    [][ /\ (main_pc = "full" /\ main_pc' # "full"
              /\ Len(send_queue) >= Capacity)
            => /\ send_queue' = send_queue
               /\ main_pc' = "sleep"
               /\ dropped' = dropped \cup {data}
        /\ (main_pc = "full" /\ main_pc' # "full"
              /\ Len(send_queue) < Capacity)
            => /\ send_queue' = send_queue
               /\ main_pc' = "put"
               /\ dropped' = dropped
        /\ (main_pc = "put" /\ main_pc' # "put")
            => send_queue' = Append(send_queue, data)
        /\ dropped' \cap (Range(send_queue') \cup Attempted' \cup InFlight')
             = {}
      ]_vars

\* A snapshot was discarded at a full queue, and a later snapshot is queued
\* behind older ones while the discarded one is nowhere in the pipeline.
C3_Witness ==
    \E d \in dropped :
        /\ Len(send_queue) >= 2
        /\ Last(send_queue) > d
        /\ Head(send_queue) < d

\* ---- C4 ------------------------------------------------------------------
\* C4: whenever main is at send_queue.put(data) the queue has a free slot,
\* so put() returns without waiting, in every interleaving with
\* sender_thread.
C4_PutNeverWaits ==
    main_pc = "put" => (Len(send_queue) < Capacity /\ ENABLED MainPut)

\* main is at put() with one free slot left while a delivery is under way.
C4_Witness ==
    /\ main_pc = "put"
    /\ Len(send_queue) = Capacity - 1
    /\ sender_pc = "send"
    /\ dropped # {}

\* ---- C5 ------------------------------------------------------------------
\* Number of failed deliveries at the end of the history s, back to the most
\* recent delivery that succeeded (HTTP 200).
RECURSIVE TrailingFailures(_)
TrailingFailures(s) ==
    IF s = <<>> \/ Last(s).delivered
      THEN 0
      ELSE 1 + TrailingFailures(SubSeq(s, 1, Len(s) - 1))

\* C5: failed_count is the number of consecutive failed deliveries since the
\* last successful one: a step that completes a delivery sets it to 0 when
\* the endpoint answered 200 and adds exactly one otherwise (status other
\* than 200 and timeout alike), and no other step changes it.
C5_StreakCountsFailures ==
    [][ /\ failed_count' = TrailingFailures(attempts')
        /\ attempts' = attempts => failed_count' = failed_count
        /\ attempts' # attempts =>
             /\ attempts' = Append(attempts, Last(attempts'))
             /\ r' = "200" <=> Last(attempts').delivered
             /\ r' = "200" => failed_count' = 0
             /\ r' # "200" => failed_count' = failed_count + 1
      ]_vars

\* After a success, a non-200 answer and then a timeout: the streak is 2.
C5_Witness ==
    /\ Len(attempts) >= 3
    /\ attempts[Len(attempts) - 2].delivered
    /\ ~attempts[Len(attempts) - 1].delivered
    /\ ~Last(attempts).delivered
    /\ r = "timeout"
    /\ failed_count = 2

\* ---- C6 ------------------------------------------------------------------
\* Number of entries of the log equal to e.
Count(e) == Cardinality({i \in 1..Len(log) : log[i] = e})

\* Delivery i succeeded right after a failed one.
Recovers(i) ==
    /\ i > 1
    /\ attempts[i].delivered
    /\ ~attempts[i - 1].delivered

\* C6: a success that ends a run of k >= 1 failures logs exactly one
\* "Connection restored" and leaves the streak at 0; a success at streak 0
\* (the first delivery, or one right after a success) logs none, and no
\* failure logs one.
C6_OneRecoveryPerOutage ==
    /\ \A i \in 1..Len(attempts) :
          Count(Restored(i)) = IF Recovers(i) THEN 1 ELSE 0
    /\ (attempts # <<>> /\ Last(attempts).delivered) => failed_count = 0

\* Three failures and then a success: one recovery message, streak back to 0.
C6_Witness ==
    /\ Len(attempts) >= 4
    /\ Recovers(Len(attempts))
    /\ ~attempts[Len(attempts) - 2].delivered
    /\ ~attempts[Len(attempts) - 3].delivered
    /\ Count(Restored(Len(attempts))) = 1
    /\ failed_count = 0

\* ---- C7 ------------------------------------------------------------------
\* Position of delivery i in its run of consecutive failures (0 for a
\* success).
FailureIndex(i) == TrailingFailures(SubSeq(attempts, 1, i))

\* Number of "Server unreachable" warnings logged during the current run of
\* failures.
WarningsInRun ==
    Cardinality({j \in 1..Len(log) :
        /\ log[j].msg = "unreachable"
        /\ log[j].attempt > Len(attempts) - TrailingFailures(attempts)})

\* C7: in a run of m >= 1 consecutive failures the warning is logged exactly
\* at the failures number 1, 11, 21, ... of the run and at no other
\* delivery, (m-1) \div 10 + 1 warnings in all.
C7_ThrottledWarning ==
    /\ \A i \in 1..Len(attempts) :
          Count(Unreachable(i)) = IF FailureIndex(i) % 10 = 1 THEN 1 ELSE 0
    /\ TrailingFailures(attempts) >= 1 =>
          WarningsInRun = ((TrailingFailures(attempts) - 1) \div 10) + 1

\* Twelve failures in a row: warnings at the first and the eleventh only.
C7_Witness ==
    /\ TrailingFailures(attempts) = 12
    /\ failed_count = 12
    /\ WarningsInRun = 2
    /\ Count(Unreachable(Len(attempts) - 1)) = 1
    /\ Count(Unreachable(Len(attempts))) = 0

\* ---- C8 ------------------------------------------------------------------
\* s has no item twice.
NoDuplicates(s) == \A i, j \in 1..Len(s) : s[i] = s[j] => i = j

\* C8: a snapshot is handed to send_metrics at most once: no snapshot occurs
\* twice among the deliveries made, the snapshot being delivered was not
\* delivered before, and no snapshot already dequeued (delivered, failed or
\* under way) is in the queue again; the queue holds no snapshot twice.
C8_NoRedelivery ==
    /\ NoDuplicates([i \in 1..Len(attempts) |-> attempts[i].id])
    /\ InFlight \cap Attempted = {}
    /\ Range(send_queue) \cap (Attempted \cup InFlight) = {}
    /\ NoDuplicates(send_queue)

\* A delivery failed, later deliveries were made and more snapshots wait.
C8_Witness ==
    /\ Len(attempts) >= 3
    /\ ~attempts[1].delivered
    /\ sender_pc = "send"
    /\ send_queue # <<>>

\* ---- C9 ------------------------------------------------------------------
\* C9: deliveries are made in production order, one at a time: the
\* deliveries made are in increasing production order, the queue is in
\* increasing production order, and when the delivery of a snapshot starts
\* every snapshot produced before it was either discarded at a full queue or
\* has its delivery finished; everything still queued was produced after it.
C9_FifoDelivery ==
    /\ \A i, j \in 1..Len(attempts) :
          i < j => attempts[i].id < attempts[j].id
    /\ \A i, j \in 1..Len(send_queue) :
          i < j => send_queue[i] < send_queue[j]
    /\ \A b \in InFlight :
          /\ \A a \in 1..(b - 1) : a \in dropped \/ a \in Attempted
          /\ \A c \in Range(send_queue) : b < c
    /\ \A a \in Attempted : \A c \in Range(send_queue) \cup InFlight : a < c
    /\ Cardinality(InFlight) <= 1

\* A delivery is under way after two others, with snapshots queued behind it
\* and a discarded snapshot among the earlier ones.
C9_Witness ==
    /\ sender_pc = "send"
    /\ Len(attempts) >= 2
    /\ Len(send_queue) >= 2
    /\ \E d \in dropped : d < payload

\* ---- C10 -----------------------------------------------------------------
\* C10: no failure ends a loop.  A step in which collect_metrics() fails
\* takes main to its sleep, from which the next iteration starts; a step in
\* which a delivery fails takes sender_thread straight back to get() with
\* the queue untouched (the failed snapshot is not put back); sender_thread
\* never ends.
C10_FailuresNeverStopLoops ==
    [][ /\ collect_errors' # collect_errors =>
             /\ main_pc' = "sleep"
             /\ send_queue' = send_queue
        /\ main_pc = "sleep" => ENABLED MainSleep
        /\ (attempts' # attempts /\ ~Last(attempts').delivered) =>
             /\ sender_pc' = "get"
             /\ send_queue' = send_queue
             /\ Last(attempts').id \notin Range(send_queue')
        /\ sender_pc' # "done"
      ]_vars

\* After a failed collection main has collected again, and after a timed-out
\* delivery sender_thread has dequeued the next snapshot.
C10_Witness ==
    /\ collect_errors >= 1
    /\ main_pc = "full"
    /\ attempts # <<>>
    /\ r = "timeout"
    /\ ~Last(attempts).delivered
    /\ sender_pc = "send"

\* ---- C11 -----------------------------------------------------------------
\* C11: register() makes at most 60 attempts, 5 seconds of sleep apart;
\* it reports failure only after 60 attempts none of which was answered 200;
\* and once an attempt is answered 200 no further attempt is made.
C11_RegistrationBound ==
    [][ /\ reg_posts' <= RegisterAttempts
        /\ reg_posts' # reg_posts =>
             /\ reg_slept = RegisterDelay * reg_posts
             /\ ~Status200(reg_r)
        /\ main_pc' = "register_failed" =>
             /\ reg_posts' = RegisterAttempts
             /\ ~Status200(reg_r')
        /\ main_pc' = "registered" => Status200(reg_r')
      ]_vars

\* ---- C12 -----------------------------------------------------------------
\* Nothing of the pipeline has happened yet.
NothingSampled ==
    /\ sender_pc = "unstarted"
    /\ collected = 0
    /\ collect_errors = 0
    /\ sent = 0
    /\ send_queue = <<>>
    /\ dropped = {}
    /\ attempts = <<>>

\* C12: until register() has returned True (its last POST answered 200)
\* sender_thread is not started and nothing is collected, enqueued or
\* delivered; when the 60 attempts are used up the process exits with
\* status 1, still without anything sampled.
C12_RegistrationFirst ==
    /\ reg_r # "200" => NothingSampled
    /\ main_pc \in {"register", "register_sleep", "register_failed",
                     "registered", "exited"} => NothingSampled
    /\ main_pc = "register_failed" =>
          reg_posts = RegisterAttempts /\ reg_r # "200"
    /\ main_pc = "exited" <=> exit_status # -1
    /\ main_pc = "exited" =>
          exit_status = 1 /\ reg_posts = RegisterAttempts /\ reg_r # "200"

\* Registration was accepted at the third attempt and the pipeline runs.
C12_Witness ==
    /\ reg_posts = 3
    /\ reg_slept = 2 * RegisterDelay
    /\ reg_r = "200"
    /\ sender_pc = "send"
    /\ collected = 2

\* ---- C13 -----------------------------------------------------------------
\* C13: an iteration of main whose collection and enqueue took T ticks
\* sleeps exactly max(0, SEND_INTERVAL - T) ticks, T being counted from the
\* start of that iteration, whether collect_metrics() returned or raised and
\* whether the snapshot was put or not; with T >= SEND_INTERVAL the sleep is
\* 0, and the next iteration is timed from its own start, so that no
\* lateness is carried over.
C13_DriftCorrectedSleep ==
    [][ /\ (main_pc # "sleep" /\ main_pc' = "sleep") =>
             /\ sleep_arg' = Max(0, SEND_INTERVAL - work)
             /\ work >= SEND_INTERVAL => sleep_arg' = 0
        /\ (main_pc = "sleep" /\ main_pc' # "sleep") =>
             /\ slept = Max(0, SEND_INTERVAL - work)
             /\ slept = sleep_arg
             /\ loop_start' = now'
             /\ work' = 0
      ]_vars

\* After an iteration that overran the interval, an iteration whose snapshot
\* was discarded at the full queue took one tick and has slept one tick.
C13_Witness ==
    /\ late
    /\ main_pc = "sleep"
    /\ ~failed_tick
    /\ data \in dropped
    /\ work = 1
    /\ slept = SEND_INTERVAL - 1
    /\ main_timer = 0

\* ---- C14 -----------------------------------------------------------------
\* C14: the step in which collect_metrics() raises produces no snapshot and
\* leaves the queue alone, logs one "Collect error" and goes to the sleep,
\* whose length is computed from the start of the iteration:
\* max(0, SEND_INTERVAL - ticks since loop_start).
C14_FailedCollectionSkipsTick ==
    [][ collect_errors' # collect_errors =>
          /\ collect_errors' = collect_errors + 1
          /\ UNCHANGED <<send_queue, dropped, collected, data, sent>>
          /\ UNCHANGED <<sender_pc, payload, attempts>>
          /\ main_pc' = "sleep"
          /\ loop_start' = loop_start
          /\ sleep_arg' = Max(0, SEND_INTERVAL - work)
          /\ main_timer' = sleep_arg'
      ]_vars

\* With snapshots waiting in the queue, collect_metrics() raised one tick
\* into the iteration and main has slept the rest of the interval.
C14_Witness ==
    /\ failed_tick
    /\ main_pc = "sleep"
    /\ Len(send_queue) >= 2
    /\ work = 1
    /\ sleep_arg = SEND_INTERVAL - 1
    /\ slept = sleep_arg

\* ---- C15 -----------------------------------------------------------------
\* sender_thread is scheduled again and again, and each call of
\* send_metrics returns: requests.post has a 5 s timeout.
SpecFair ==
    /\ Spec
    /\ WF_vars(Steady(SenderGet))
    /\ WF_vars(Steady(SenderSend))

\* Number of delivery attempts made for the snapshot id.
AttemptsOf(id) == Cardinality({i \in DOMAIN attempts : attempts[i].id = id})

\* C15: under SpecFair every snapshot that is in the queue is eventually
\* taken out of it and handed to send_metrics, and no snapshot is ever
\* handed to send_metrics more than once.
C15_EnqueuedEventuallyAttempted ==
    \A id \in 1..MaxSnapshots :
        /\ [](id \in Range(send_queue) =>
                <>(id \notin Range(send_queue) /\ AttemptsOf(id) = 1))
        /\ [](AttemptsOf(id) <= 1)

\* Every snapshot was collected, the queue has been emptied, and each
\* snapshot that was not discarded has had its one attempt.
C15_Witness ==
    /\ collected = MaxSnapshots
    /\ dropped # {}
    /\ send_queue = <<>>
    /\ sender_pc = "get"
    /\ \A id \in (1..MaxSnapshots) \ dropped : AttemptsOf(id) = 1

\* ---- C16 -----------------------------------------------------------------
\* C16: sender_thread ends only by taking None from the queue, and then
\* without a send_metrics call for it; main puts only what collect_metrics()
\* returned and sender_thread puts nothing, so that in every reachable state
\* None is neither in the queue nor on its way into it nor being delivered,
\* and sender_thread has not ended.
C16_NoSentinelNoExit ==
    /\ [][ sender_pc' = "done" =>
             /\ sender_pc \in {"get", "done"}
             /\ payload' = None
             /\ attempts' = attempts ]_vars
    /\ [][ Len(send_queue') > Len(send_queue) =>
             /\ main_pc = "put"
             /\ send_queue' = Append(send_queue, data)
             /\ data \in 1..collected ]_vars
    /\ [](/\ None \notin Range(send_queue)
          /\ main_pc \in {"full", "put"} => data # None
          /\ sender_pc = "send" => payload # None
          /\ \A i \in DOMAIN attempts : attempts[i].id # None
          /\ sender_pc # "done")

\* A collection has failed, several snapshots went through the queue, and
\* sender_thread is waiting at the empty queue again.
C16_Witness ==
    /\ collect_errors >= 1
    /\ Len(attempts) >= 3
    /\ send_queue = <<>>
    /\ sender_pc = "get"
    /\ main_pc = "sleep"

\* ---- C17 -----------------------------------------------------------------
\* No iteration of main has taken longer than SEND_INTERVAL.
OnTime == ~late /\ work <= SEND_INTERVAL

C18_LookupOncePerWindow ==
    [][ ip_calls' = ip_calls + 1 =>
          IF ip_lookups > 0 /\ now - ip_last_lookup < CacheTtl
            THEN /\ ip_lookups' = ip_lookups
                 /\ ip_returned' = ip_cache.ip
                 /\ ip_cache' = ip_cache
            ELSE ip_lookups' = ip_lookups + 1
      ]_vars

\* ---- C19 -----------------------------------------------------------------
\* The snapshot collect_metrics() has returned and main has neither put nor
\* discarded yet.
Held == IF main_pc \in {"full", "put"} THEN {data} ELSE {}

\* C19 as stated: in every reachable state the number of snapshots
\* collected is the number discarded at the full queue, plus the number in
\* the queue, plus the number being delivered, plus the number whose
\* delivery attempt is over.
C19_FourWayConservation ==
    collected = Cardinality(dropped) + Len(send_queue)
                  + Cardinality(InFlight) + Len(attempts)

\* C19, amended: in every reachable state the snapshots collected are
\* exactly those discarded at the full queue, those in the queue, the one
\* being delivered, those whose delivery attempt is over, and the one main
\* holds between collect_metrics() and the queue; none is in two of these
\* places.  Whenever main holds none, the four-way sum is exact.
C19_ConservationWithHeld ==
    /\ collected = Cardinality(dropped) + Len(send_queue)
                     + Cardinality(InFlight) + Len(attempts)
                     + Cardinality(Held)
    /\ dropped \cup Range(send_queue) \cup InFlight \cup Attempted \cup Held
         = 1..collected
    /\ Cardinality(Held) <= 1
    /\ main_pc \in {"collect", "sleep"} =>
         collected = Cardinality(dropped) + Len(send_queue)
                       + Cardinality(InFlight) + Len(attempts)

\* A snapshot in each of the five places at once.
C19_Witness ==
    /\ main_pc = "full"
    /\ dropped # {}
    /\ send_queue # <<>>
    /\ sender_pc = "send"
    /\ attempts # <<>>
    /\ collect_errors >= 1

\* ---- C20 -----------------------------------------------------------------
\* C20 as stated: in every reachable state sent is the number of snapshots
\* collect_metrics() has returned.
C20_SentIsCollected == sent = collected

\* C20, amended: sent is incremented by one at the end of each iteration
\* whose collection succeeded, whether the snapshot was put or discarded,
\* and by nothing else, a failed collection included; so between iterations
\* it is the number of snapshots collected, and at least the number put and
\* the number of send_metrics calls, and within an iteration it is at most
\* one behind the number collected.
C20_SentCountsIterations ==
    /\ [](main_pc \in {"collect", "sleep"} =>
            /\ sent = collected
            /\ sent >= collected - Cardinality(dropped)
            /\ sent >= Len(attempts) + Cardinality(InFlight))
    /\ [](collected - 1 <= sent /\ sent <= collected)
    /\ [][ sent' # sent =>
             /\ sent' = sent + 1
             /\ main_pc \in {"full", "put"}
             /\ main_pc' = "sleep"
             /\ collected' = collected
             /\ \/ send_queue' = Append(send_queue, data)
                \/ dropped' = dropped \cup {data} /\ send_queue' = send_queue
           ]_vars
    /\ [][ collect_errors' # collect_errors => sent' = sent ]_vars

\* After a failed collection and two discarded snapshots main is between
\* iterations, and sent is ahead of the number of snapshots put.
C20_Witness ==
    /\ main_pc = "sleep"
    /\ collect_errors >= 1
    /\ Cardinality(dropped) >= 2
    /\ sent = collected
    /\ sent = Len(send_queue) + Cardinality(InFlight) + Len(attempts) + 2

====
